---- MODULE Spec2Model ----
(***************************************************************************)
(* Session-state engine of the interview monitor backend.                  *)
(*                                                                         *)
(* backend/api.py runs its request handlers as coroutines on ONE event     *)
(* loop thread; analyze_frame_sync and process_audio_blob are off-loaded   *)
(* to worker threads (anyio.to_thread.run_sync); FaceAnalyzer runs one     *)
(* cleanup thread.  analyzer.lock is a threading.Lock: acquiring it blocks *)
(* the calling thread, also when that thread is the event loop.            *)
(*                                                                         *)
(* Numbers: head positions are in units of 0.001, stability samples in     *)
(* units of 1/MoveLimit (so 1.0 is MoveLimit), emotion scores in units of  *)
(* 1/EmoScale percent, times in seconds (clock) and milliseconds (audio).  *)
(*                                                                         *)
(* The socket.io server keeps the rooms; an emit hands its message to the  *)
(* members the room has at the call (inbox) and suspends the caller only   *)
(* while there is a recipient.  A signalling handler is taken as one step. *)
(***************************************************************************)
EXTENDS Integers, Sequences, FiniteSets, TLC

(* ---------------- bounds of the model ---------------- *)
MaxReqs == 2
MaxTicks == 3
MaxCalls == 4
MaxFrames == 16
MaxEvents == 4

(* ---------------- program constants ---------------- *)
SweepInterval == 60
TTL == 120
SeedLen == 10
WindowCap == 15
MoveLimit == 30
SPEECH_THRESHOLD_MS == 100

Reqs == 1..MaxReqs
SIDs == {"s1", "s2"}
NoRoom == ""
Rooms == {NoRoom, "room1"}
RoomNames == {"room1", "room2"}
Conns == {"c1", "c2", "c3"}

Free == 0
Sweeper == -1

VARIABLES sessions, lock, loop, pc, req, loc, resp,
          clock, sweepPc, sweepNow, wakeAt, to_delete,
          fed, nCalls,
          rooms, inbox, sig, nEvents,
          frame_queue, result_queue, stopped, workerPc, stopPc, wloc

vars == <<sessions, lock, loop, pc, req, loc, resp,
          clock, sweepPc, sweepNow, wakeAt, to_delete, fed, nCalls,
          rooms, inbox, sig, nEvents,
          frame_queue, result_queue, stopped, workerPc, stopPc, wloc>>

(* ---------------- dictionaries ---------------- *)
EmptyDict == [k \in {} |-> 0]

DictSet(d, k, v) == [x \in (DOMAIN d) \cup {k} |-> IF x = k THEN v ELSE d[x]]

DictDel(d, k) == [x \in (DOMAIN d) \ {k} |-> d[x]]

(* ---------------- arithmetic helpers ---------------- *)
Max(a, b) == IF a >= b THEN a ELSE b

Abs(a) == IF a >= 0 THEN a ELSE 0 - a

(* square root of the perfect squares the modelled positions produce *)
Sqrt(n) == CHOOSE k \in 0..n : k * k <= n /\ (k + 1) * (k + 1) > n

RECURSIVE SumSeq(_)
SumSeq(s) == IF s = <<>> THEN 0 ELSE Head(s) + SumSeq(Tail(s))

RECURSIVE Gcd(_, _)
Gcd(a, b) == IF b = 0 THEN a ELSE Gcd(b, a % b)

(* the fraction num/den (num >= 0, den > 0) in lowest terms *)
Reduce(f) ==
  LET g == Gcd(f.num, f.den)
  IN  [num |-> f.num \div g, den |-> f.den \div g]

(* Python round(): nearest, ties to even; n/d with d > 0, n >= 0 *)
RoundDiv(n, d) ==
  LET q == n \div d
      r == n % d
  IN  IF 2 * r > d \/ (2 * r = d /\ q % 2 = 1) THEN q + 1 ELSE q

(* ---------------- inputs ---------------- *)
(* nose-tip positions a face-mesh result can carry *)
Positions == {<<500, 515>>}
WindowPositions == {<<500, 500>>, <<500, 515>>}

(* x coordinates of the iris and the two corner landmarks of one eye *)
Eye(iris, l_c, r_c) == [iris |-> iris, l_c |-> l_c, r_c |-> r_c]

(* the left and the right eye of the frames of the other specifications *)
Eyes == {<<Eye(450, 400, 500), Eye(653, 600, 700)>>}

IrisXs == {490, 497, 499, 500, 503, 510}
CornerXs == {490, 510}
EyeInputs == {Eye(i, l, r) : i \in IrisXs, l \in CornerXs, r \in CornerXs}
GazeEyes == EyeInputs \X EyeInputs

(* classifier outputs, raw per-label percentages *)
EmotionOutputs == {[happy |-> 80]}
EmaOutputs == {[happy |-> 50], [happy |-> 80], [happy |-> 50, sad |-> 20]}

(* voice-activity statistics of one blob; the empty dict stands for None *)
Blob(sp, si, tr) ==
  [speech_ms |-> sp, silence_ms |-> si, trailing_silence_ms |-> tr,
   duration_ms |-> sp + si]

ConcBlobs == {Blob(500, 500, 300)}

SeqBlobs ==
  {Blob(0, 0, 0), Blob(0, 1, 1), Blob(0, 2000, 2000), Blob(0, 3000, 3000),
   Blob(0, 5000, 5000), Blob(100, 900, 400), Blob(101, 899, 300),
   Blob(500, 500, 300)}

(* ---------------- FaceAnalyzer.analyze_frame_sync, first critical section *)
NewFrameSession(curr_pos, now) ==
  [emotions |-> EmptyDict,
   last_head_pos |-> curr_pos,
   stability_history |-> [i \in 1..SeedLen |-> MoveLimit],
   last_seen |-> now]

LazyInitFace(session, curr_pos) ==
  LET s1 == IF "stability_history" \in DOMAIN session THEN session
            ELSE session @@ [stability_history |-> [i \in 1..SeedLen |-> MoveLimit]]
  IN  IF "last_head_pos" \in DOMAIN s1 THEN s1
      ELSE s1 @@ [last_head_pos |-> curr_pos]

Movement(curr_pos, prev_pos) ==
  Sqrt((curr_pos[1] - prev_pos[1]) * (curr_pos[1] - prev_pos[1])
       + (curr_pos[2] - prev_pos[2]) * (curr_pos[2] - prev_pos[2]))

CurrStability(movement) == Max(0, MoveLimit - movement)

(* pop() in place of pop(0): the newest sample is dropped *)
PushWindowDropNewest(hist, sample) ==
  LET h == Append(hist, sample)
  IN  IF Len(h) > WindowCap THEN SubSeq(h, 1, WindowCap) ELSE h

PushWindow(hist, sample) ==
  LET h == Append(hist, sample)
  IN  IF Len(h) > WindowCap THEN Tail(h) ELSE h

(* the session after lines 119-142 *)
StabilityCommit(ss, session_id, curr_pos, now) ==
  LET s0 == IF session_id \in DOMAIN ss THEN ss[session_id]
            ELSE NewFrameSession(curr_pos, now)
      s1 == LazyInitFace([s0 EXCEPT !.last_seen = now], curr_pos)
      sample == CurrStability(Movement(curr_pos, s1.last_head_pos))
  IN  [s1 EXCEPT !.stability_history = PushWindow(@, sample),
                 !.last_head_pos = curr_pos]

(* ---------------- gaze score ---------------- *)
(* face_analyzer.py 85-94: the ratio as a fraction num/den *)
get_gaze_ratio(eye) ==
  LET eye_width == Abs(eye.r_c - eye.l_c)
  IN  IF eye_width = 0 THEN [num |-> 1, den |-> 2]
      ELSE [num |-> eye.iris - eye.l_c, den |-> eye_width]

(* (left_ratio + right_ratio) / 2 *)
AvgRatio(left_ratio, right_ratio) ==
  [num |-> left_ratio.num * right_ratio.den + right_ratio.num * left_ratio.den,
   den |-> 2 * left_ratio.den * right_ratio.den]

(* abs(avg_ratio - 0.5) *)
GazeDist(avg_ratio) ==
  [num |-> Abs(2 * avg_ratio.num - avg_ratio.den), den |-> 2 * avg_ratio.den]

(* 0.15 as GazeLimitNum / GazeLimitDen *)
GazeLimitNum == 3
GazeLimitDen == 20

(* max(0, 1 - gaze_dist / 0.15) *)
GazeScore(eyes) ==
  LET gaze_dist == GazeDist(AvgRatio(get_gaze_ratio(eyes[1]), get_gaze_ratio(eyes[2])))
  IN  Reduce([num |-> Max(0, GazeLimitNum * gaze_dist.den
                                - GazeLimitDen * gaze_dist.num),
              den |-> GazeLimitNum * gaze_dist.den])

(* np.mean of the window, as a fraction num/den of 1.0 *)
StabilityScore(session) ==
  [num |-> SumSeq(session.stability_history),
   den |-> Len(session.stability_history) * MoveLimit]

(* ---------------- second critical section: emotion EMA ---------------- *)
AlphaNum == 1
AlphaDen == 5

(* scores are kept in units of 1/EmoScale percent: six smoothing steps stay exact *)
EmoScale == AlphaDen * AlphaDen * AlphaDen * AlphaDen * AlphaDen * AlphaDen

Raw(current_emotions) ==
  [e \in DOMAIN current_emotions |-> current_emotions[e] * EmoScale]

PreviousScore(smoothed, emotion) ==
  IF emotion \in DOMAIN smoothed THEN smoothed[emotion] ELSE 0

Ema(score, previous_score) ==
  (score * AlphaNum + previous_score * (AlphaDen - AlphaNum)) \div AlphaDen

SmoothEmotions(emotions, current_emotions) ==
  LET raw == Raw(current_emotions)
      seeded == IF DOMAIN emotions = {} THEN raw ELSE emotions
  IN  [e \in (DOMAIN seeded) \cup (DOMAIN raw) |->
         IF e \in DOMAIN raw THEN Ema(raw[e], PreviousScore(seeded, e))
         ELSE seeded[e]]

(* the classifier output is blended into every stored session *)
EmotionCommitAll(ss, session_id, current_emotions) ==
  [sid \in DOMAIN ss |->
     [ss[sid] EXCEPT !.emotions = SmoothEmotions(@, current_emotions)]]

EmotionCommit(ss, session_id, current_emotions) ==
  [ss EXCEPT ![session_id].emotions = SmoothEmotions(@, current_emotions)]

(* ---------------- analyze_audio: session update and payload ---------------- *)
NewAudioStats == [speech_ms |-> 0, silence_ms |-> 0, current_silence_ms |-> 0]

NewAudioSession(now) ==
  [emotions |-> EmptyDict,
   audio_stats |-> NewAudioStats,
   last_head_pos |-> <<500, 500>>,
   stability_history |-> [i \in 1..SeedLen |-> MoveLimit],
   last_seen |-> now]

LazyInitAudio(session) ==
  LET s1 == IF "audio_stats" \in DOMAIN session THEN session
            ELSE session @@ [audio_stats |-> NewAudioStats]
  IN  IF "stability_history" \in DOMAIN s1 THEN s1
      ELSE [k \in (DOMAIN s1) \cup {"stability_history", "last_head_pos"} |->
              IF k = "stability_history" THEN [i \in 1..SeedLen |-> MoveLimit]
              ELSE IF k = "last_head_pos" THEN <<500, 500>>
              ELSE s1[k]]

IsSpeakingBlobAtThreshold(stats) == stats.speech_ms >= SPEECH_THRESHOLD_MS

IsSpeakingBlob(stats) == stats.speech_ms > SPEECH_THRESHOLD_MS

NextStreak(current_silence_ms, stats) ==
  IF IsSpeakingBlob(stats) THEN stats.trailing_silence_ms
  ELSE current_silence_ms + stats.silence_ms

UpdateAudioStats(s_stats, stats) ==
  [current_silence_ms |-> NextStreak(s_stats.current_silence_ms, stats),
   speech_ms |-> s_stats.speech_ms + stats.speech_ms,
   silence_ms |-> s_stats.silence_ms + stats.silence_ms]

(* the session after lines 140-182 *)
AudioCommit(ss, session_id, stats, now) ==
  LET s0 == IF session_id \in DOMAIN ss THEN ss[session_id]
            ELSE NewAudioSession(now)
      s1 == LazyInitAudio([s0 EXCEPT !.last_seen = now])
  IN  [s1 EXCEPT !.audio_stats = UpdateAudioStats(@, stats)]

FreezeMs == 10000
StallingMs == 5000
ThinkingMs == 2000

VocalStatusInclusive(streak) ==
  IF streak >= FreezeMs THEN "freeze"
  ELSE IF streak >= StallingMs THEN "stalling"
  ELSE IF streak >= ThinkingMs THEN "thinking"
  ELSE "fluent"

VocalStatus(streak) ==
  IF streak > FreezeMs THEN "freeze"
  ELSE IF streak > StallingMs THEN "stalling"
  ELSE IF streak > ThinkingMs THEN "thinking"
  ELSE "fluent"

FluencyTruncated(s_stats) ==
  LET total_time == s_stats.speech_ms + s_stats.silence_ms
  IN  IF total_time > 0 THEN (s_stats.speech_ms * 10000) \div total_time
      ELSE 10000

(* round(fluency, 2), in hundredths of a percent *)
Fluency(s_stats) ==
  LET total_time == s_stats.speech_ms + s_stats.silence_ms
  IN  IF total_time > 0 THEN RoundDiv(s_stats.speech_ms * 10000, total_time)
      ELSE 10000

(* round(streak / 1000, 1), in tenths of a second *)
SilenceStreak(streak) == RoundDiv(streak, 100)

AudioPayload(session, stats) ==
  [success |-> TRUE,
   fluency |-> Fluency(session.audio_stats),
   is_speaking |-> stats.speech_ms > 0,
   vocal_status |-> VocalStatus(session.audio_stats.current_silence_ms),
   silence_streak |-> SilenceStreak(session.audio_stats.current_silence_ms)]

AudioFailure == [success |-> FALSE, error |-> "Could not analyze audio"]

(* ---------------- analyze_frame: payload ---------------- *)
(* gaze and stability rounded to hundredths, confidence to tenths *)
FramePayload(face) ==
  [detected |-> TRUE,
   emotions |-> face.emotions,
   gaze_score |-> RoundDiv(face.gaze_score.num * 100, face.gaze_score.den),
   stability_score |-> RoundDiv(face.stability_score.num * 100,
                                face.stability_score.den),
   confidence_score |->
     RoundDiv((face.gaze_score.num * face.stability_score.den
                 + face.stability_score.num * face.gaze_score.den) * 500,
              face.gaze_score.den * face.stability_score.den)]

NotDetected == [detected |-> FALSE]

DecodeFailure == [detected |-> FALSE, error |-> "Invalid image data"]

(* ---------------- end_session ---------------- *)
SessionCleared == [success |-> TRUE, message |-> "Session cleared"]

SessionNotFound == [success |-> FALSE, message |-> "Session not found"]

(* ---------------- _cleanup_loop ---------------- *)
ToDeleteAtTtl(ss, now) == {sid \in DOMAIN ss : now - ss[sid].last_seen >= TTL}

ToDelete(ss, now) == {sid \in DOMAIN ss : now - ss[sid].last_seen > TTL}

Sweep(ss, dead) == [sid \in (DOMAIN ss) \ dead |-> ss[sid]]

(* ---------------- socket.io rooms and emits ---------------- *)
(* the connections currently in a room *)
Participants(rs, room) == IF room \in DOMAIN rs THEN rs[room] ELSE {}

(* sio.emit(event, data, room=room, skip_sid=skip_sid) *)
Recipients(rs, room, skip_sid) == Participants(rs, room) \ skip_sid

Message(event, data) == [event |-> event, data |-> data]

Deliver(box, to, msg) ==
  [c \in Conns |-> IF c \in to THEN Append(box[c], msg) ELSE box[c]]

EnterRoom(rs, sid, room) == [rs EXCEPT ![room] = @ \cup {sid}]

LeaveRoom(rs, sid, room) == [rs EXCEPT ![room] = @ \ {sid}]

(* the broadcast of analysis results is left out *)
ResultsRecipientsNone(rs, room_id) == {}

(* api.py 115-116, 207-208: `if data.room_id:` emit to the whole room *)
ResultsRecipients(rs, room_id) ==
  IF room_id # NoRoom THEN Recipients(rs, room_id, {}) ELSE {}

NoEvent == [event |-> "none", sid |-> "c1", room |-> NoRoom]

(* ---------------- state after startup_event ---------------- *)
NoWorkerLocals == [frame |-> 0, results |-> <<>>]

NoRequest == [kind |-> "none", session_id |-> "s1", room_id |-> NoRoom]

ResultsData ==
  [detected |-> FALSE, emotions |-> EmptyDict,
   gaze_score |-> [num |-> 0, den |-> 1],
   stability_score |-> [num |-> 0, den |-> 1]]

NoLocals ==
  [curr_pos |-> <<0, 0>>, eyes |-> <<Eye(0, 0, 0), Eye(0, 0, 0)>>,
   emotion_results |-> EmptyDict, stats |-> EmptyDict,
   results_data |-> ResultsData, results |-> <<>>]

Pending == [pending |-> TRUE]

NoFeed == [speech_ms |-> 0, silence_ms |-> 0]

Init ==
  /\ sessions = EmptyDict
  /\ lock = Free
  /\ loop = Free
  /\ pc = [r \in Reqs |-> "idle"]
  /\ req = [r \in Reqs |-> NoRequest]
  /\ loc = [r \in Reqs |-> NoLocals]
  /\ resp = [r \in Reqs |-> Pending]
  /\ clock = 0
  /\ sweepPc = "sleep"
  /\ sweepNow = 0
  /\ wakeAt = SweepInterval
  /\ to_delete = {}
  /\ fed = [sid \in SIDs |-> NoFeed]
  /\ nCalls = 0
  /\ rooms = [room \in RoomNames |-> {}]
  /\ inbox = [c \in Conns |-> <<>>]
  /\ sig = NoEvent
  /\ nEvents = 0
  /\ frame_queue = <<>>
  /\ result_queue = <<>>
  /\ stopped = FALSE
  /\ workerPc = "new"
  /\ stopPc = "idle"
  /\ wloc = NoWorkerLocals

(* requests are admitted in slot order; a handler starts on a free loop *)
CanStart(r) ==
  /\ pc[r] = "idle"
  /\ loop = Free
  /\ IF r = 1 THEN TRUE ELSE pc[r - 1] # "idle"

Return(r, payload) ==
  /\ pc' = [pc EXCEPT ![r] = "done"]
  /\ resp' = [resp EXCEPT ![r] = payload]

sweepVars == <<clock, sweepPc, sweepNow, wakeAt, to_delete>>

relayVars == <<rooms, inbox, sig, nEvents>>

workerVars == <<frame_queue, result_queue, stopped, workerPc, stopPc, wloc>>

(* ---------------- POST /analyze ---------------- *)
(* the handler refreshes last_seen of the named session before decoding *)
analyze_frame_refreshing(r, session_id, room_id, decodable) ==
  /\ CanStart(r)
  /\ req' = [req EXCEPT ![r] = [kind |-> "frame", session_id |-> session_id,
                                room_id |-> room_id]]
  /\ IF decodable
       THEN pc' = [pc EXCEPT ![r] = "face_mesh"] /\ UNCHANGED resp
       ELSE Return(r, DecodeFailure)
  /\ sessions' = IF session_id \in DOMAIN sessions
                   THEN [sessions EXCEPT ![session_id].last_seen = clock]
                   ELSE sessions
  /\ UNCHANGED <<lock, loop, loc, sweepVars, relayVars, workerVars, fed, nCalls>>

(* api.py 81-94: decode on the loop, then off-load analyze_frame_sync *)
analyze_frame(r, session_id, room_id, decodable) ==
  /\ CanStart(r)
  /\ req' = [req EXCEPT ![r] = [kind |-> "frame", session_id |-> session_id,
                                room_id |-> room_id]]
  /\ IF decodable
       THEN pc' = [pc EXCEPT ![r] = "face_mesh"] /\ UNCHANGED resp
       ELSE Return(r, DecodeFailure)
  /\ UNCHANGED <<sessions, lock, loop, loc, sweepVars, relayVars, workerVars, fed, nCalls>>

(* a frame without a face resets the smoothed emotions of its session *)
face_mesh_process_clearing(r, detected, curr_pos, eyes) ==
  LET sid == req[r].session_id
  IN  /\ pc[r] = "face_mesh"
      /\ IF detected
           THEN /\ loc' = [loc EXCEPT ![r].curr_pos = curr_pos,
                                      ![r].eyes = eyes,
                                      ![r].results_data.detected = TRUE,
                                      ![r].results_data.gaze_score = GazeScore(eyes)]
                /\ pc' = [pc EXCEPT ![r] = "lock1"]
                /\ UNCHANGED sessions
           ELSE /\ loc' = [loc EXCEPT ![r].results = <<>>]
                /\ pc' = [pc EXCEPT ![r] = "frame_resume"]
                /\ sessions' = IF sid \in DOMAIN sessions
                                 THEN [sessions EXCEPT ![sid].emotions = EmptyDict]
                                 ELSE sessions
      /\ UNCHANGED <<lock, loop, req, resp, sweepVars, relayVars, workerVars, fed, nCalls>>

(* face_analyzer.py 73-108: landmark detection and gaze score, outside the *)
(* lock; without a face, or on an exception, nothing is computed          *)
face_mesh_process(r, detected, curr_pos, eyes) ==
  /\ pc[r] = "face_mesh"
  /\ IF detected
       THEN /\ loc' = [loc EXCEPT ![r].curr_pos = curr_pos,
                                  ![r].eyes = eyes,
                                  ![r].results_data.detected = TRUE,
                                  ![r].results_data.gaze_score = GazeScore(eyes)]
            /\ pc' = [pc EXCEPT ![r] = "lock1"]
       ELSE /\ loc' = [loc EXCEPT ![r].results = <<>>]
            /\ pc' = [pc EXCEPT ![r] = "frame_resume"]
  /\ UNCHANGED <<sessions, lock, loop, req, resp, sweepVars, relayVars, workerVars, fed, nCalls>>

(* the first with-block never left *)
LockKeptAfterCommit1(r) == r

(* the lock after the first with-block is left *)
LockAfterCommit1(r) == Free

(* face_analyzer.py 110-142: the with-block, entered when the lock is free *)
frame_commit1(r) ==
  LET sid == req[r].session_id
      session == StabilityCommit(sessions, sid, loc[r].curr_pos, clock)
  IN  /\ pc[r] = "lock1"
      /\ lock = Free
      /\ sessions' = DictSet(sessions, sid, session)
      /\ loc' = [loc EXCEPT ![r].results_data.stability_score =
                              StabilityScore(session)]
      /\ fed' = IF sid \in DOMAIN sessions THEN fed
                ELSE [fed EXCEPT ![sid] = NoFeed]
      /\ lock' = LockAfterCommit1(r)
      /\ pc' = [pc EXCEPT ![r] = "deepface"]
      /\ UNCHANGED <<loop, req, resp, sweepVars, relayVars, workerVars, nCalls>>

(* face_analyzer.py 145-158: classifier, outside the lock; an exception or *)
(* an empty answer leaves emotion_results empty                            *)
deepface_analyze(r, emotion_results) ==
  /\ pc[r] = "deepface"
  /\ IF DOMAIN emotion_results = {}
       THEN /\ loc' = [loc EXCEPT ![r].results = <<loc[r].results_data>>]
            /\ pc' = [pc EXCEPT ![r] = "frame_resume"]
       ELSE /\ loc' = [loc EXCEPT ![r].emotion_results = emotion_results]
            /\ pc' = [pc EXCEPT ![r] = "lock2"]
  /\ UNCHANGED <<sessions, lock, loop, req, resp, sweepVars, relayVars, workerVars, fed, nCalls>>

(* face_analyzer.py 162-181: the second with-block; self.sessions[session_id] *)
(* raises KeyError for an absent id and the outer except returns []          *)
frame_commit2(r) ==
  LET sid == req[r].session_id
      ss == EmotionCommit(sessions, sid, loc[r].emotion_results)
      results_data == [loc[r].results_data EXCEPT !.emotions = ss[sid].emotions]
  IN  /\ pc[r] = "lock2"
      /\ lock = Free
      /\ IF sid \in DOMAIN sessions
           THEN /\ sessions' = ss
                /\ loc' = [loc EXCEPT ![r].results_data = results_data,
                                      ![r].results = <<results_data>>]
           ELSE /\ loc' = [loc EXCEPT ![r].results = <<>>]
                /\ UNCHANGED sessions
      /\ lock' = Free
      /\ pc' = [pc EXCEPT ![r] = "frame_resume"]
      /\ UNCHANGED <<loop, req, resp, sweepVars, relayVars, workerVars, fed, nCalls>>

(* api.py 96-120: back on the loop; sio.emit hands the payload to the    *)
(* members of the room and suspends the handler while it is being sent  *)
frame_resume(r) ==
  LET payload == FramePayload(loc[r].results[1])
      to == ResultsRecipients(rooms, req[r].room_id)
  IN  /\ pc[r] = "frame_resume"
      /\ loop = Free
      /\ IF loc[r].results = <<>>
           THEN Return(r, NotDetected) /\ UNCHANGED inbox
           ELSE /\ resp' = [resp EXCEPT ![r] = payload]
                /\ inbox' = Deliver(inbox, to, Message("ai_results", payload))
                /\ pc' = [pc EXCEPT ![r] = IF to = {} THEN "done" ELSE "frame_emit"]
      /\ UNCHANGED <<sessions, lock, loop, req, loc, sweepVars, fed, nCalls,
                     rooms, sig, nEvents, workerVars>>

(* api.py 116-118: the emit completes and the handler returns *)
frame_emit_done(r) ==
  /\ pc[r] = "frame_emit"
  /\ loop = Free
  /\ pc' = [pc EXCEPT ![r] = "done"]
  /\ UNCHANGED <<sessions, lock, loop, req, loc, resp, sweepVars, relayVars, workerVars, fed, nCalls>>

(* ---------------- POST /analyze_audio ---------------- *)
(* api.py 132-134: off-load process_audio_blob *)
analyze_audio(r, session_id, room_id) ==
  /\ CanStart(r)
  /\ req' = [req EXCEPT ![r] = [kind |-> "audio", session_id |-> session_id,
                                room_id |-> room_id]]
  /\ pc' = [pc EXCEPT ![r] = "vad"]
  /\ UNCHANGED <<sessions, lock, loop, loc, resp, sweepVars, relayVars, workerVars, fed, nCalls>>

(* audio_analyzer.py 18-65: decoding and voice-activity detection in a     *)
(* worker thread; None (the empty dict here) on any exception              *)
process_audio_blob(r, stats) ==
  /\ pc[r] = "vad"
  /\ loc' = [loc EXCEPT ![r].stats = stats]
  /\ pc' = [pc EXCEPT ![r] = "audio_resume"]
  /\ UNCHANGED <<sessions, lock, loop, req, resp, sweepVars, relayVars, workerVars, fed, nCalls>>

(* a blob that cannot be analysed still bootstraps its session *)
audio_resume_creating(r) ==
  LET sid == req[r].session_id
  IN  /\ pc[r] = "audio_resume"
      /\ loop = Free
      /\ IF DOMAIN loc[r].stats = {}
           THEN /\ Return(r, AudioFailure)
                /\ UNCHANGED loop
                /\ sessions' = IF sid \in DOMAIN sessions THEN sessions
                               ELSE DictSet(sessions, sid, NewAudioSession(clock))
           ELSE /\ pc' = [pc EXCEPT ![r] = "audio_lock"]
                /\ loop' = r
                /\ UNCHANGED <<resp, sessions>>
      /\ UNCHANGED <<lock, req, loc, sweepVars, relayVars, workerVars, fed, nCalls>>

(* api.py 136-138, 212: the handler is back on the loop and reaches        *)
(* `with analyzer.lock`, which it executes on the loop thread              *)
audio_resume(r) ==
  /\ pc[r] = "audio_resume"
  /\ loop = Free
  /\ IF DOMAIN loc[r].stats = {}
       THEN Return(r, AudioFailure) /\ UNCHANGED loop
       ELSE /\ pc' = [pc EXCEPT ![r] = "audio_lock"]
            /\ loop' = r
            /\ UNCHANGED resp
  /\ UNCHANGED <<sessions, lock, req, loc, sweepVars, relayVars, workerVars, fed, nCalls>>

(* the lock while the handler awaits sio.emit at api.py 208 *)
LockDuringEmit(r) == r

(* api.py 138-210: the with-block, entered on the loop thread when the     *)
(* lock is free: update, payload, and either return (leaving the block)    *)
(* or await sio.emit inside the block                                      *)
audio_commit(r) ==
  LET sid == req[r].session_id
      stats == loc[r].stats
      session == AudioCommit(sessions, sid, stats, clock)
      payload == AudioPayload(session, stats)
      to == ResultsRecipients(rooms, req[r].room_id)
  IN  /\ pc[r] = "audio_lock"
      /\ lock = Free
      /\ sessions' = DictSet(sessions, sid, session)
      /\ fed' = [fed EXCEPT ![sid] =
                   IF sid \in DOMAIN sessions
                     THEN [speech_ms |-> @.speech_ms + stats.speech_ms,
                           silence_ms |-> @.silence_ms + stats.silence_ms]
                     ELSE [speech_ms |-> stats.speech_ms,
                           silence_ms |-> stats.silence_ms]]
      /\ resp' = [resp EXCEPT ![r] = payload]
      /\ inbox' = Deliver(inbox, to, Message("vocal_results", payload))
      /\ loop' = Free
      /\ IF to # {}
           THEN /\ pc' = [pc EXCEPT ![r] = "audio_emit"]
                /\ lock' = LockDuringEmit(r)
           ELSE /\ pc' = [pc EXCEPT ![r] = "done"]
                /\ lock' = Free
      /\ UNCHANGED <<req, loc, sweepVars, nCalls, rooms, sig, nEvents, workerVars>>

(* api.py 208-210: the emit completes on the loop, the handler returns and *)
(* leaves the with-block                                                   *)
audio_emit_done(r) ==
  /\ pc[r] = "audio_emit"
  /\ loop = Free
  /\ pc' = [pc EXCEPT ![r] = "done"]
  /\ lock' = IF lock = r THEN Free ELSE lock
  /\ UNCHANGED <<sessions, loop, req, loc, resp, sweepVars, relayVars, workerVars, fed, nCalls>>

(* ---------------- POST /end_session ---------------- *)
(* api.py 64-67: the handler runs on the loop up to `with analyzer.lock` *)
end_session(r, session_id) ==
  /\ CanStart(r)
  /\ req' = [req EXCEPT ![r] = [kind |-> "end", session_id |-> session_id,
                                room_id |-> NoRoom]]
  /\ pc' = [pc EXCEPT ![r] = "end_lock"]
  /\ loop' = r
  /\ UNCHANGED <<sessions, lock, loc, resp, sweepVars, relayVars, workerVars, fed, nCalls>>

EndSessionStoreAll(ss, session_id) ==
  IF session_id \in DOMAIN ss THEN EmptyDict ELSE ss

EndSessionStore(ss, session_id) ==
  IF session_id \in DOMAIN ss THEN DictDel(ss, session_id) ELSE ss

EndSessionResponse(ss, session_id) ==
  IF session_id \in DOMAIN ss THEN SessionCleared ELSE SessionNotFound

(* api.py 67-73: the with-block, entered on the loop thread when the lock *)
(* is free                                                               *)
end_commit(r) ==
  /\ pc[r] = "end_lock"
  /\ lock = Free
  /\ sessions' = EndSessionStore(sessions, req[r].session_id)
  /\ Return(r, EndSessionResponse(sessions, req[r].session_id))
  /\ lock' = Free
  /\ loop' = Free
  /\ UNCHANGED <<req, loc, sweepVars, relayVars, workerVars, fed, nCalls>>

(* ---------------- FaceAnalyzer._cleanup_loop ---------------- *)
reqVars == <<loop, pc, req, loc, resp, fed, nCalls>>

(* face_analyzer.py 52-53: sleep(60) is over, now = time.time() *)
cleanup_wake ==
  /\ sweepPc = "sleep"
  /\ clock >= wakeAt
  /\ sweepNow' = clock
  /\ sweepPc' = "lock"
  /\ UNCHANGED <<sessions, lock, clock, wakeAt, to_delete, reqVars, relayVars, workerVars>>

(* face_analyzer.py 54-60: the with-block, then the next sleep(60) starts *)
cleanup_commit ==
  /\ sweepPc = "lock"
  /\ lock = Free
  /\ to_delete' = ToDelete(sessions, sweepNow)
  /\ sessions' = Sweep(sessions, to_delete')
  /\ lock' = Free
  /\ wakeAt' = clock + SweepInterval
  /\ sweepPc' = "sleep"
  /\ UNCHANGED <<clock, sweepNow, reqVars, relayVars, workerVars>>

(* time.time() advances *)
Tick ==
  /\ clock < MaxTicks * SweepInterval
  /\ clock' = clock + SweepInterval
  /\ UNCHANGED <<sessions, lock, sweepPc, sweepNow, wakeAt, to_delete, reqVars, relayVars, workerVars>>

(* ---------------- socket.io signalling handlers ---------------- *)
(* a handler is dispatched on the event loop with the sender's sid and the *)
(* room named in its data                                                  *)
SocketEvent(event, sid, room) ==
  /\ loop = Free
  /\ nEvents < MaxEvents
  /\ nEvents' = nEvents + 1
  /\ sig' = [event |-> event, sid |-> sid, room |-> room]
  /\ UNCHANGED <<sessions, lock, reqVars, sweepVars, workerVars>>

(* api.py 236: user_joined goes to the room with skip_sid=sid *)
UserJoinedTo(rs, room, sid) == Recipients(rs, room, {sid})

(* room_joined is emitted with skip_sid=sid as well *)
RoomJoinedToOthers(rs, room, sid) == Recipients(rs, room, {sid})

(* api.py 237: room_joined goes to the whole room *)
RoomJoinedTo(rs, room, sid) == Recipients(rs, room, {})

(* api.py 229-237 *)
join_room(sid, room) ==
  LET entered == EnterRoom(rooms, sid, room)
      told == Deliver(inbox, UserJoinedTo(entered, room, sid),
                      Message("user_joined", [sid |-> sid]))
  IN  /\ SocketEvent("join_room", sid, room)
      /\ IF room # NoRoom
           THEN /\ rooms' = entered
                /\ inbox' = Deliver(told, RoomJoinedTo(entered, room, sid),
                                    Message("room_joined", [room |-> room]))
           ELSE UNCHANGED <<rooms, inbox>>

(* api.py 239-244 *)
leave_room(sid, room) ==
  /\ SocketEvent("leave_room", sid, room)
  /\ rooms' = IF room # NoRoom THEN LeaveRoom(rooms, sid, room) ELSE rooms
  /\ UNCHANGED inbox

(* the relay without skip_sid *)
RelayToAll(rs, room, sid) == Recipients(rs, room, {})

(* api.py 251, 258, 264: emit(..., room=room, skip_sid=sid) *)
RelayTo(rs, room, sid) == Recipients(rs, room, {sid})

Relay(event, sid, room) ==
  /\ SocketEvent(event, sid, room)
  /\ inbox' = Deliver(inbox, RelayTo(rooms, room, sid),
                      Message(event, [room |-> room]))
  /\ UNCHANGED rooms

(* api.py 246-251 *)
offer(sid, room) == Relay("offer", sid, room)

(* api.py 253-258 *)
answer(sid, room) == Relay("answer", sid, room)

(* api.py 260-264 *)
ice_candidate(sid, room) == Relay("ice_candidate", sid, room)

(* the room is emptied when it is terminated *)
terminate_room_closing(sid, room) ==
  /\ SocketEvent("terminate_room", sid, room)
  /\ inbox' = Deliver(inbox, Recipients(rooms, room, {}),
                      Message("room_terminated", [room |-> room]))
  /\ rooms' = [rooms EXCEPT ![room] = {}]

(* api.py 266-270 *)
terminate_room(sid, room) ==
  /\ SocketEvent("terminate_room", sid, room)
  /\ inbox' = Deliver(inbox, Recipients(rooms, room, {}),
                      Message("room_terminated", [room |-> room]))
  /\ UNCHANGED rooms

(* ---------------- the service under concurrent requests ---------------- *)
Next ==
  \/ \E r \in Reqs, sid \in SIDs, room \in Rooms, ok \in BOOLEAN :
       analyze_frame(r, sid, room, ok)
  \/ \E r \in Reqs, p \in Positions, e \in Eyes : face_mesh_process(r, TRUE, p, e)
  \/ \E r \in Reqs, e \in Eyes : face_mesh_process(r, FALSE, <<0, 0>>, e)
  \/ \E r \in Reqs : frame_commit1(r)
  \/ \E r \in Reqs, e \in EmotionOutputs \cup {EmptyDict} : deepface_analyze(r, e)
  \/ \E r \in Reqs : frame_commit2(r)
  \/ \E r \in Reqs : frame_resume(r)
  \/ \E r \in Reqs : frame_emit_done(r)
  \/ \E r \in Reqs, sid \in SIDs, room \in Rooms : analyze_audio(r, sid, room)
  \/ \E r \in Reqs, b \in ConcBlobs \cup {EmptyDict} : process_audio_blob(r, b)
  \/ \E r \in Reqs : audio_resume(r)
  \/ \E r \in Reqs : audio_commit(r)
  \/ \E r \in Reqs : audio_emit_done(r)
  \/ \E r \in Reqs, sid \in SIDs : end_session(r, sid)
  \/ \E r \in Reqs : end_commit(r)
  \/ cleanup_wake
  \/ cleanup_commit
  \/ Tick
  \/ nEvents = 0 /\ join_room("c1", "room1")

Spec == Init /\ [][Next]_vars

(* ---------------- one client calling the service sequentially ---------------- *)
(* the client waits for its response, then reuses request slot 1 *)
client_next ==
  /\ pc[1] = "done"
  /\ nCalls < MaxCalls
  /\ nCalls' = nCalls + 1
  /\ pc' = [pc EXCEPT ![1] = "idle"]
  /\ req' = [req EXCEPT ![1] = NoRequest]
  /\ loc' = [loc EXCEPT ![1] = NoLocals]
  /\ resp' = [resp EXCEPT ![1] = Pending]
  /\ UNCHANGED <<sessions, lock, loop, sweepVars, relayVars, workerVars, fed>>

(* frames, audio and end_session over two sessions *)
NextSeq ==
  \/ client_next
  \/ \E sid \in SIDs, ok \in BOOLEAN : analyze_frame(1, sid, NoRoom, ok)
  \/ \E p \in Positions, e \in Eyes : face_mesh_process(1, TRUE, p, e)
  \/ \E e \in Eyes : face_mesh_process(1, FALSE, <<0, 0>>, e)
  \/ frame_commit1(1)
  \/ \E e \in EmotionOutputs \cup {EmptyDict} : deepface_analyze(1, e)
  \/ frame_commit2(1)
  \/ frame_resume(1)
  \/ \E sid \in SIDs : analyze_audio(1, sid, NoRoom)
  \/ \E b \in ConcBlobs \cup {EmptyDict} : process_audio_blob(1, b)
  \/ audio_resume(1)
  \/ audio_commit(1)
  \/ \E sid \in SIDs : end_session(1, sid)
  \/ end_commit(1)

SpecSeq == Init /\ [][NextSeq]_vars

(* a stream of audio blobs for one session, with end_session in between *)
NextAudio ==
  \/ client_next
  \/ analyze_audio(1, "s1", NoRoom)
  \/ \E b \in SeqBlobs \cup {EmptyDict} : process_audio_blob(1, b)
  \/ audio_resume(1)
  \/ audio_commit(1)
  \/ end_session(1, "s1")
  \/ end_commit(1)

SpecAudio == Init /\ [][NextAudio]_vars

(* ---------------- a stream of frames for one session ---------------- *)
(* the camera client posts the next frame once the last one is answered *)
stream_next ==
  /\ pc[1] = "done"
  /\ nCalls < MaxFrames
  /\ nCalls' = nCalls + 1
  /\ pc' = [pc EXCEPT ![1] = "idle"]
  /\ req' = [req EXCEPT ![1] = NoRequest]
  /\ loc' = [loc EXCEPT ![1] = NoLocals]
  /\ resp' = [resp EXCEPT ![1] = Pending]
  /\ UNCHANGED <<sessions, lock, loop, sweepVars, relayVars, workerVars, fed>>

(* the nose rests or moves by 0.015 between frames; the classifier is *)
(* unavailable, so only the stability window changes                  *)
NextWindow ==
  \/ stream_next
  \/ analyze_frame(1, "s1", NoRoom, TRUE)
  \/ \E p \in WindowPositions, e \in Eyes : face_mesh_process(1, TRUE, p, e)
  \/ frame_commit1(1)
  \/ deepface_analyze(1, EmptyDict)
  \/ frame_resume(1)

SpecWindow == Init /\ [][NextWindow]_vars

(* ---------------- frames of one session with changing classifier output ---------------- *)
NextEma ==
  \/ client_next
  \/ analyze_frame(1, "s1", NoRoom, TRUE)
  \/ \E p \in Positions, e \in Eyes : face_mesh_process(1, TRUE, p, e)
  \/ \E e \in Eyes : face_mesh_process(1, FALSE, <<0, 0>>, e)
  \/ frame_commit1(1)
  \/ \E e \in EmaOutputs \cup {EmptyDict} : deepface_analyze(1, e)
  \/ frame_commit2(1)
  \/ frame_resume(1)

SpecEma == Init /\ [][NextEma]_vars

(* ---------------- one frame over the eye landmarks ---------------- *)
NextGaze ==
  \/ analyze_frame(1, "s1", NoRoom, TRUE)
  \/ \E p \in Positions, e \in GazeEyes : face_mesh_process(1, TRUE, p, e)
  \/ frame_commit1(1)
  \/ deepface_analyze(1, EmptyDict)
  \/ frame_resume(1)

SpecGaze == Init /\ [][NextGaze]_vars

(* ---------------- the streaming worker ---------------- *)
(* face_analyzer.py 41-42 *)
start ==
  /\ workerPc = "new"
  /\ stopPc = "idle"
  /\ workerPc' = "loop"
  /\ UNCHANGED <<sessions, lock, reqVars, sweepVars, relayVars,
                 frame_queue, result_queue, stopped, stopPc, wloc>>

(* the producer of main.py 31 hands the next camera frame to the one-slot  *)
(* frame_queue; the newest frame replaces a frame still waiting            *)
process_frame ==
  /\ workerPc # "new"
  /\ stopPc = "idle"
  /\ nCalls < MaxCalls
  /\ nCalls' = nCalls + 1
  /\ frame_queue' = <<nCalls + 1>>
  /\ UNCHANGED <<sessions, lock, loop, pc, req, loc, resp, fed, sweepVars,
                 relayVars, result_queue, stopped, workerPc, stopPc, wloc>>

(* the consumer of main.py 32 takes the result waiting in result_queue *)
get_latest_result ==
  /\ workerPc # "new"
  /\ stopPc = "idle"
  /\ result_queue # <<>>
  /\ result_queue' = <<>>
  /\ UNCHANGED <<sessions, lock, reqVars, sweepVars, relayVars,
                 frame_queue, stopped, workerPc, stopPc, wloc>>

(* face_analyzer.py 184: `while not self.stopped` *)
worker_check ==
  /\ workerPc = "loop"
  /\ workerPc' = IF stopped THEN "exited" ELSE "get"
  /\ UNCHANGED <<sessions, lock, reqVars, sweepVars, relayVars,
                 frame_queue, result_queue, stopped, stopPc, wloc>>

(* face_analyzer.py 185-188: get(timeout=1) returns the waiting frame, or *)
(* raises queue.Empty after a second and the loop continues               *)
worker_get ==
  /\ workerPc = "get"
  /\ IF frame_queue # <<>>
       THEN /\ wloc' = [wloc EXCEPT !.frame = frame_queue[1]]
            /\ frame_queue' = <<>>
            /\ workerPc' = "analyze"
       ELSE /\ workerPc' = "loop"
            /\ UNCHANGED <<frame_queue, wloc>>
  /\ UNCHANGED <<sessions, lock, reqVars, sweepVars, relayVars,
                 result_queue, stopped, stopPc>>

(* analyze_frame_sync(frame, "default") as the worker runs it: no other  *)
(* thread uses the store, so its two with-blocks are taken in one step   *)
WorkerAnalysis(ss, detected, curr_pos, eyes, emotion_results, now) ==
  LET session == StabilityCommit(ss, "default", curr_pos, now)
      ss1 == DictSet(ss, "default", session)
      ss2 == IF DOMAIN emotion_results = {} THEN ss1
             ELSE EmotionCommit(ss1, "default", emotion_results)
      results_data ==
        [ResultsData EXCEPT !.detected = TRUE,
                            !.gaze_score = GazeScore(eyes),
                            !.stability_score = StabilityScore(session),
                            !.emotions = IF DOMAIN emotion_results = {}
                                           THEN EmptyDict
                                           ELSE ss2["default"].emotions]
  IN  IF detected THEN [sessions |-> ss2, results |-> <<results_data>>]
      ELSE [sessions |-> ss, results |-> <<>>]

(* face_analyzer.py 190 *)
worker_analyze(detected, curr_pos, eyes, emotion_results) ==
  LET done == WorkerAnalysis(sessions, detected, curr_pos, eyes,
                             emotion_results, clock)
  IN  /\ workerPc = "analyze"
      /\ lock = Free
      /\ sessions' = done.sessions
      /\ wloc' = [wloc EXCEPT !.results = done.results]
      /\ workerPc' = "put"
      /\ UNCHANGED <<lock, reqVars, sweepVars, relayVars,
                     frame_queue, result_queue, stopped, stopPc>>

(* face_analyzer.py 191: put() blocks while result_queue is full *)
worker_put ==
  /\ workerPc = "put"
  /\ result_queue = <<>>
  /\ result_queue' = <<wloc.results>>
  /\ workerPc' = "loop"
  /\ UNCHANGED <<sessions, lock, reqVars, sweepVars, relayVars,
                 frame_queue, stopped, stopPc, wloc>>

(* face_analyzer.py 44-46: stop() sets the flag and joins a live thread *)
stop_call ==
  /\ workerPc # "new"
  /\ stopPc = "idle"
  /\ stopped' = TRUE
  /\ stopPc' = IF workerPc = "exited" THEN "returned" ELSE "join"
  /\ UNCHANGED <<sessions, lock, reqVars, sweepVars, relayVars,
                 frame_queue, result_queue, workerPc, wloc>>

(* face_analyzer.py 47: join() returns once the worker has exited *)
stop_join ==
  /\ stopPc = "join"
  /\ workerPc = "exited"
  /\ stopPc' = "returned"
  /\ UNCHANGED <<sessions, lock, reqVars, sweepVars, relayVars,
                 frame_queue, result_queue, stopped, workerPc, wloc>>

worker_step ==
  \/ worker_check
  \/ worker_get
  \/ \E p \in Positions, e \in Eyes, o \in EmotionOutputs \cup {EmptyDict} :
       worker_analyze(TRUE, p, e, o)
  \/ \E e \in Eyes : worker_analyze(FALSE, <<0, 0>>, e, EmptyDict)
  \/ worker_put

NextWorker ==
  \/ start
  \/ process_frame
  \/ get_latest_result
  \/ worker_step
  \/ stop_call
  \/ stop_join

(* a started thread keeps being scheduled *)
SpecWorker ==
  Init /\ [][NextWorker]_vars /\ WF_vars(worker_step) /\ WF_vars(stop_join)

(* ---------------- signalling between connections ---------------- *)
NextSignal ==
  \/ \E c \in Conns, room \in RoomNames \cup {NoRoom} : join_room(c, room)
  \/ \E c \in Conns, room \in RoomNames \cup {NoRoom} : leave_room(c, room)
  \/ \E c \in Conns, room \in RoomNames : offer(c, room)
  \/ \E c \in Conns, room \in RoomNames : answer(c, room)
  \/ \E c \in Conns, room \in RoomNames : ice_candidate(c, room)
  \/ \E c \in Conns, room \in RoomNames : terminate_room(c, room)

SpecSignal == Init /\ [][NextSignal]_vars

(* ======================= properties ======================= *)
OnLoopWaitingForLock(r) == loop = r /\ pc[r] \in {"audio_lock", "end_lock"}

SuspendedInEmit(r) == pc[r] \in {"frame_emit", "audio_emit"}

RunningDetector(r) == pc[r] \in {"face_mesh", "deepface", "vad"}

(* a frame call between its stability write and its emotion write *)
MidUpdate(r) == pc[r] \in {"deepface", "lock2"}

(* C1: no operation blocks indefinitely: there is no reachable state in    *)
(* which the session lock is held by a handler suspended on the loop while *)
(* the loop thread, which must resume it, is blocked waiting for that lock *)
C1_NoOperationBlocksForever ==
  ~ \E h \in Reqs, w \in Reqs :
      /\ SuspendedInEmit(h)
      /\ lock = h
      /\ OnLoopWaitingForLock(w)

(* C2: a handler that is emitting ai_results or vocal_results to a room,   *)
(* or is suspended inside that emit, does not hold analyzer.lock           *)
C2_NoLockDuringBroadcast ==
  \A r \in Reqs : SuspendedInEmit(r) => lock # r

(* C3: no other operation changes or removes a session between a frame     *)
(* call's write of stability_history/last_head_pos/last_seen and the same  *)
(* call's write of the smoothed emotions                                   *)
C3_FrameUpdateIsOneCriticalSection ==
  [][\A r \in Reqs :
       (MidUpdate(r) /\ pc'[r] = pc[r] /\ req[r].session_id \in DOMAIN sessions)
         => /\ req[r].session_id \in DOMAIN sessions'
            /\ sessions'[req[r].session_id] = sessions[req[r].session_id]]_vars

(* C4: a frame call that detected a face never loses its detected=true     *)
(* result because the session entry was deleted while it was in progress   *)
C4_DeletionNeverLosesResult ==
  \A r \in Reqs :
    (pc[r] = "done" /\ req[r].kind = "frame" /\ loc[r].results_data.detected)
      => resp[r].detected

(* C5: a sweep that read the time `now` removes every session with         *)
(* now - last_seen > 120 and keeps every other session with its state      *)
(* unchanged                                                               *)
C5_SweepRemovesExactlyTheExpired ==
  [][(sweepPc = "lock" /\ sweepPc' = "sleep") =>
       /\ \A sid \in DOMAIN sessions :
            IF sweepNow - sessions[sid].last_seen > 120
              THEN sid \notin DOMAIN sessions'
              ELSE sid \in DOMAIN sessions' /\ sessions'[sid] = sessions[sid]
       /\ DOMAIN sessions' \subseteq DOMAIN sessions]_vars

(* a sweep has just removed an expired session and kept one that is        *)
(* exactly 120 s old                                                       *)
C5_Witness ==
  /\ sweepPc = "sleep"
  /\ to_delete # {}
  /\ \E sid \in DOMAIN sessions : sweepNow - sessions[sid].last_seen = 120

(* C6: end_session always answers: for an absent id success=false and the  *)
(* store is unchanged; for a present id exactly that entry is removed and  *)
(* success=true, so that a repeated call finds it absent                   *)
C6_EndSessionIdempotent ==
  [][\A r \in Reqs :
       (pc[r] = "end_lock" /\ pc'[r] = "done") =>
         LET sid == req[r].session_id
         IN  IF sid \in DOMAIN sessions
               THEN /\ resp'[r].success = TRUE
                    /\ DOMAIN sessions' = (DOMAIN sessions) \ {sid}
                    /\ \A o \in DOMAIN sessions' : sessions'[o] = sessions[o]
               ELSE /\ resp'[r].success = FALSE
                    /\ sessions' = sessions]_vars

(* end_session has removed one session while another one stays stored *)
C6_Witness ==
  /\ pc[1] = "done"
  /\ req[1].kind = "end"
  /\ resp[1].success = TRUE
  /\ req[1].session_id \notin DOMAIN sessions
  /\ DOMAIN sessions # {}

(* C7: face-mesh processing, emotion classification and voice-activity     *)
(* detection never run while the calling operation holds the session lock  *)
C7_DetectorsOutsideLock ==
  \A r \in Reqs : RunningDetector(r) => lock # r

(* the classifier of one call runs while another operation holds the lock *)
C7_Witness ==
  \E r \in Reqs : pc[r] = "deepface" /\ lock \notin {Free, r}

(* the step in which analyze_audio commits its session update *)
AudioCommitStep(r) == pc[r] = "audio_lock" /\ pc'[r] \in {"done", "audio_emit"}

PrevStreak(sid) ==
  IF sid \in DOMAIN sessions /\ "audio_stats" \in DOMAIN sessions[sid]
    THEN sessions[sid].audio_stats.current_silence_ms
    ELSE 0

(* C8: a blob with speech_ms > 100 sets the silence streak to its          *)
(* trailing_silence_ms whatever the streak was; any other blob adds its    *)
(* silence_ms to the streak                                                *)
C8_StreakResetOrAccumulate ==
  [][\A r \in Reqs :
       AudioCommitStep(r) =>
         LET sid == req[r].session_id
             b == loc[r].stats
             new == sessions'[sid].audio_stats.current_silence_ms
         IN  IF b.speech_ms > 100
               THEN new = b.trailing_silence_ms
               ELSE new = PrevStreak(sid) + b.silence_ms]_vars

(* a speaking blob has reset a streak of more than 2 s that silent blobs   *)
(* had accumulated                                                         *)
C8_Witness ==
  /\ pc[1] = "done"
  /\ req[1].kind = "audio"
  /\ resp[1].success = TRUE
  /\ loc[1].stats.speech_ms > 100
  /\ LET a == sessions[req[1].session_id].audio_stats
     IN  /\ a.current_silence_ms = loc[1].stats.trailing_silence_ms
         /\ a.speech_ms = loc[1].stats.speech_ms
         /\ a.silence_ms - loc[1].stats.silence_ms > 2000

(* C9: vocal_status is determined by the streak after the update:          *)
(* <= 2000 fluent, <= 5000 thinking, <= 10000 stalling, above that freeze  *)
C9_VocalStatusBoundaries ==
  [][\A r \in Reqs :
       AudioCommitStep(r) =>
         LET streak == sessions'[req[r].session_id].audio_stats.current_silence_ms
             status == resp'[r].vocal_status
         IN  /\ streak <= 2000 => status = "fluent"
             /\ (2000 < streak /\ streak <= 5000) => status = "thinking"
             /\ (5000 < streak /\ streak <= 10000) => status = "stalling"
             /\ streak > 10000 => status = "freeze"]_vars

(* a streak of exactly 10000 ms was reported as stalling *)
C9_Witness ==
  /\ pc[1] = "done"
  /\ req[1].kind = "audio"
  /\ resp[1].success = TRUE
  /\ sessions[req[1].session_id].audio_stats.current_silence_ms = 10000
  /\ resp[1].vocal_status = "stalling"

(* the stored totals are the sums of the blobs fed since the session was   *)
(* created                                                                 *)
TotalsAreSums(sid) ==
  /\ sessions'[sid].audio_stats.speech_ms = fed'[sid].speech_ms
  /\ sessions'[sid].audio_stats.silence_ms = fed'[sid].silence_ms

FrameCommit1Step(r) == pc[r] = "lock1" /\ pc'[r] = "deepface"

SessionKeys ==
  {"emotions", "last_head_pos", "stability_history", "audio_stats", "last_seen"}

(* C11: every stored session has an emotion vector, a head position, a     *)
(* stability window, an audio accumulator and last_seen, whichever         *)
(* modality created it                                                     *)
C11_SessionsFullyPopulated ==
  \A sid \in DOMAIN sessions :
    /\ DOMAIN sessions[sid] = SessionKeys
    /\ DOMAIN sessions[sid].audio_stats =
         {"speech_ms", "silence_ms", "current_silence_ms"}

(* no frame has been committed for the stored session yet *)
NoFrameYet(sid) ==
  sid \in DOMAIN sessions => Len(sessions[sid].stability_history) = SeedLen

(* C12: the first frame with a detected face yields the stability sample   *)
(* 1.0, the same window and the same head position, whether that frame     *)
(* created the session or an audio-only call created it before             *)
C12_BootstrapSymmetric ==
  [][\A r \in Reqs :
       (FrameCommit1Step(r) /\ NoFrameYet(req[r].session_id)) =>
         LET after == sessions'[req[r].session_id]
         IN  /\ after.stability_history = [i \in 1..(SeedLen + 1) |-> MoveLimit]
             /\ after.last_head_pos = loc[r].curr_pos]_vars

(* C14: the first observation of a session, by a frame or by an audio      *)
(* call, leaves the window seeded with capacity-many (15) samples of 1.0   *)
C14_SeededWithCapacity ==
  [][\A sid \in SIDs :
       (sid \notin DOMAIN sessions /\ sid \in DOMAIN sessions') =>
         sessions'[sid].stability_history = [i \in 1..WindowCap |-> MoveLimit]]_vars

FrameCommit2Step(r) == pc[r] = "lock2" /\ pc'[r] = "frame_resume"

(* C15: per label, the smoothed value becomes the raw value when the       *)
(* session has no prior value for that label (never a prior of 0), and     *)
(* 0.2*raw + 0.8*prior otherwise, also for a label that first appears      *)
(* after other labels have values                                          *)
C15_EmaPerLabel ==
  [][\A r \in Reqs :
       (FrameCommit2Step(r) /\ req[r].session_id \in DOMAIN sessions) =>
         LET prior == sessions[req[r].session_id].emotions
             after == sessions'[req[r].session_id].emotions
             raw   == loc[r].emotion_results
         IN  \A e \in DOMAIN raw :
               IF e \in DOMAIN prior
                 THEN after[e] * 10 = 2 * raw[e] * EmoScale + 8 * prior[e]
                 ELSE after[e] = raw[e] * EmoScale]_vars

(* a step of a frame call in which no face was detected *)
NoFaceStep(r) ==
  /\ req'[r].kind = "frame"
  /\ pc[r] \in {"idle", "face_mesh", "frame_resume"}
  /\ pc'[r] \in {"face_mesh", "frame_resume", "done"}
  /\ pc'[r] # pc[r]
  /\ ~loc'[r].results_data.detected

(* C20: a frame without a detected face is answered detected=false and     *)
(* leaves the emotion vector of its session as it was                      *)
C20_NoFaceLeavesEmotions ==
  [][\A r \in Reqs :
       NoFaceStep(r) =>
         /\ \A sid \in DOMAIN sessions :
              /\ sid \in DOMAIN sessions'
              /\ sessions'[sid].emotions = sessions[sid].emotions
         /\ pc'[r] = "done" => resp'[r].detected = FALSE]_vars

(* a session with smoothed emotions, and a frame of it answered without a face *)
C20_Witness ==
  /\ pc[1] = "done"
  /\ req[1].kind = "frame"
  /\ resp[1] = NotDetected
  /\ "s1" \in DOMAIN sessions
  /\ "happy" \in DOMAIN sessions["s1"].emotions

(* the step in which a signalling handler for `event` runs *)
SignalStep(event) == nEvents' = nEvents + 1 /\ sig'.event = event

(* connection c receives exactly the messages msgs in this step *)
Receives(c, msgs) == inbox'[c] = inbox[c] \o msgs

(* C16: an offer, answer or ice_candidate sent by connection s for room r  *)
(* is delivered to every current member of r other than s, never to s      *)
C16_RelayExcludesSender ==
  [][\A e \in {"offer", "answer", "ice_candidate"} :
       SignalStep(e) =>
         LET msg == [event |-> e, data |-> [room |-> sig'.room]]
         IN  /\ \A c \in rooms[sig'.room] \ {sig'.sid} : Receives(c, <<msg>>)
             /\ Receives(sig'.sid, <<>>)]_vars

(* all three connections are in the room; one has sent an offer that the   *)
(* other two received                                                      *)
C16_Witness ==
  /\ sig.event = "offer"
  /\ rooms[sig.room] = Conns
  /\ \A c \in Conns \ {sig.sid} :
       inbox[c][Len(inbox[c])] = [event |-> "offer", data |-> [room |-> sig.room]]
  /\ inbox[sig.sid][Len(inbox[sig.sid])].event = "room_joined"

(* C17 as stated: when s joins r, user_joined and room_joined are both     *)
(* delivered to all current members of r including s                       *)
C17_JoinDeliveredToAll ==
  [][(SignalStep("join_room") /\ sig'.room # NoRoom) =>
       \A c \in rooms'[sig'.room] :
         Receives(c, << [event |-> "user_joined", data |-> [sid |-> sig'.sid]],
                        [event |-> "room_joined", data |-> [room |-> sig'.room]] >>)]_vars

(* C17 amended: when s joins r, room_joined is delivered to all current    *)
(* members of r including s, and user_joined to all of them except s       *)
C17_JoinConfirmations ==
  [][(SignalStep("join_room") /\ sig'.room # NoRoom) =>
       /\ sig'.sid \in rooms'[sig'.room]
       /\ Receives(sig'.sid,
                   << [event |-> "room_joined", data |-> [room |-> sig'.room]] >>)
       /\ \A c \in rooms'[sig'.room] \ {sig'.sid} :
            Receives(c, << [event |-> "user_joined", data |-> [sid |-> sig'.sid]],
                           [event |-> "room_joined", data |-> [room |-> sig'.room]] >>)]_vars

(* a connection has joined a room that had a member already *)
C17_Witness ==
  /\ sig.event = "join_room"
  /\ sig.room # NoRoom
  /\ \E c \in rooms[sig.room] \ {sig.sid} :
       /\ Len(inbox[c]) >= 3
       /\ inbox[c][Len(inbox[c]) - 1].event = "user_joined"
       /\ inbox[c][Len(inbox[c])].event = "room_joined"
  /\ Len(inbox[sig.sid]) = 1
  /\ inbox[sig.sid][1].event = "room_joined"

(* the step in which handler r reaches its broadcast and answers *)
FrameAnswerStep(r) == pc[r] = "frame_resume" /\ pc'[r] # pc[r]

AudioAnswerStep(r) == pc[r] \in {"audio_resume", "audio_lock"} /\ pc'[r] # pc[r]

(* C18: a frame analysis with a detected face, or a successful audio       *)
(* analysis, that carries a room_id delivers exactly one ai_results (resp. *)
(* vocal_results) message with the returned payload to every member of     *)
(* the room at emission time, observers included; without room_id, or      *)
(* without a result, nothing is broadcast                                  *)
C18_ResultsFanOut ==
  [][\A r \in Reqs :
       /\ FrameAnswerStep(r) =>
            \A c \in Conns :
              IF resp'[r].detected /\ req[r].room_id # NoRoom
                   /\ c \in rooms[req[r].room_id]
                THEN Receives(c, << [event |-> "ai_results", data |-> resp'[r]] >>)
                ELSE Receives(c, <<>>)
       /\ AudioAnswerStep(r) =>
            \A c \in Conns :
              IF pc[r] = "audio_lock" /\ resp'[r].success
                   /\ req[r].room_id # NoRoom /\ c \in rooms[req[r].room_id]
                THEN Receives(c, << [event |-> "vocal_results", data |-> resp'[r]] >>)
                ELSE Receives(c, <<>>)
       /\ (pc[r] \in {"frame_emit", "audio_emit"} /\ pc'[r] = "done") =>
            inbox' = inbox]_vars

(* the observer c1 holds one ai_results and one vocal_results message, the *)
(* payloads returned to the two callers                                    *)
C18_Witness ==
  /\ "c1" \in rooms["room1"]
  /\ \E f \in Reqs, a \in Reqs :
       /\ req[f].kind = "frame" /\ req[a].kind = "audio"
       /\ pc[f] = "done" /\ pc[a] = "done"
       /\ Len(inbox["c1"]) = 3
       /\ \E i \in 2..3, j \in 2..3 :
            /\ inbox["c1"][i] = [event |-> "ai_results", data |-> resp[f]]
            /\ inbox["c1"][j] = [event |-> "vocal_results", data |-> resp[a]]
  /\ inbox["c2"] = <<>>

(* C19: terminate_room on r delivers room_terminated to the members of r   *)
(* and changes no membership; the members the terminated room is left     *)
(* with hold the notice and still receive the next broadcast to r         *)
C19_TerminateKeepsMembers ==
  [][/\ SignalStep("terminate_room") =>
          /\ rooms' = rooms
          /\ \A c \in Conns :
               IF c \in rooms[sig'.room]
                 THEN Receives(c, << [event |-> "room_terminated",
                                      data |-> [room |-> sig'.room]] >>)
                 ELSE Receives(c, <<>>)
     /\ \A e \in {"offer", "answer", "ice_candidate"} :
          (sig.event = "terminate_room" /\ SignalStep(e) /\ sig'.room = sig.room) =>
            \A c \in rooms[sig.room] \ {sig'.sid} :
              /\ inbox[c][Len(inbox[c])] = [event |-> "room_terminated",
                                            data |-> [room |-> sig.room]]
              /\ Receives(c, << [event |-> e, data |-> [room |-> sig'.room]] >>)]_vars

(* a room with two members was terminated and the next offer to it still   *)
(* reached the other member                                                *)
C19_Witness ==
  /\ sig.event = "offer"
  /\ nEvents = MaxEvents
  /\ Cardinality(rooms[sig.room]) = 2
  /\ sig.sid \in rooms[sig.room]
  /\ inbox[sig.sid][Len(inbox[sig.sid])] =
       [event |-> "room_terminated", data |-> [room |-> sig.room]]
  /\ \E c \in rooms[sig.room] \ {sig.sid} :
       /\ Len(inbox[c]) >= 2
       /\ inbox[c][Len(inbox[c]) - 1] =
            [event |-> "room_terminated", data |-> [room |-> sig.room]]
       /\ inbox[c][Len(inbox[c])] = [event |-> "offer", data |-> [room |-> sig.room]]

(* the step that answers a frame call whose image cannot be decoded *)
MalformedFrameStep(r) ==
  pc[r] = "idle" /\ pc'[r] = "done" /\ req'[r].kind = "frame"

(* a step of an audio call whose blob cannot be decoded *)
MalformedAudioStep(r) ==
  /\ req'[r].kind = "audio"
  /\ pc[r] \in {"idle", "vad", "audio_resume"}
  /\ pc'[r] # pc[r]
  /\ DOMAIN loc'[r].stats = {}

(* C21: an undecodable image is answered detected=false with an error, an  *)
(* undecodable blob success=false with an error; the call is answered,     *)
(* creates no session and changes no stored session                        *)
C21_MalformedIsSoftFailure ==
  [][\A r \in Reqs :
       /\ MalformedFrameStep(r) =>
            /\ sessions' = sessions
            /\ resp'[r].detected = FALSE
            /\ "error" \in DOMAIN resp'[r]
       /\ MalformedAudioStep(r) =>
            /\ sessions' = sessions
            /\ pc'[r] = "done" =>
                 /\ resp'[r].success = FALSE
                 /\ "error" \in DOMAIN resp'[r]]_vars

(* an undecodable blob for an unseen id was answered while another session *)
(* is stored, and the id is still unseen                                   *)
C21_Witness ==
  /\ pc[1] = "done"
  /\ req[1].kind = "audio"
  /\ resp[1] = AudioFailure
  /\ req[1].session_id \notin DOMAIN sessions
  /\ sessions # EmptyDict

(* a step of the call in request slot r *)
CallStep(r) == pc'[r] # pc[r]

(* C22: no step of a frame, audio or end_session call for session id A     *)
(* changes, creates or deletes a stored session with another id B, under   *)
(* any interleaving with other calls                                       *)
C22_CallsAreIsolated ==
  [][\A r \in Reqs :
       CallStep(r) =>
         \A B \in SIDs \ {req'[r].session_id} :
           /\ B \in DOMAIN sessions <=> B \in DOMAIN sessions'
           /\ B \in DOMAIN sessions => sessions'[B] = sessions[B]]_vars

(* two calls for different ids are answered, one of them a frame with its  *)
(* emotions stored, and the other session is stored without them           *)
C22_Witness ==
  /\ pc[1] = "done" /\ pc[2] = "done"
  /\ req[1].session_id # req[2].session_id
  /\ {req[1].session_id, req[2].session_id} \subseteq DOMAIN sessions
  /\ \E f \in Reqs, o \in Reqs :
       /\ req[f].kind = "frame"
       /\ sessions[req[f].session_id].emotions # EmptyDict
       /\ sessions[req[o].session_id].emotions = EmptyDict

(* the step in which the cleanup thread leaves its with-block *)
SweepStep == sweepPc = "lock" /\ sweepPc' = "sleep"

(* C24: a frame call that does not reach the state commit (undecodable     *)
(* image, no face, exception before the first with-block) leaves the store *)
(* unchanged, so it neither creates a session nor refreshes last_seen, and *)
(* a sweep still removes every session last seen more than 120 s before it *)
C24_UncommittedFrameLeavesStore ==
  [][/\ \A r \in Reqs : NoFaceStep(r) => sessions' = sessions
     /\ SweepStep =>
          \A sid \in DOMAIN sessions :
            sweepNow - sessions[sid].last_seen > TTL => sid \notin DOMAIN sessions']_vars

(* a session was created by one call, a later frame for it found no face,  *)
(* and the sweep has removed the session                                   *)
C24_Witness ==
  \E c \in Reqs, f \in Reqs :
    /\ c < f
    /\ pc[c] = "done" /\ pc[f] = "done"
    /\ req[c].kind = "audio" /\ resp[c].success
    /\ req[f].kind = "frame" /\ resp[f] = NotDetected
    /\ req[f].session_id = req[c].session_id
    /\ to_delete = {req[f].session_id}
    /\ sessions = EmptyDict

(* the ratio of the claim: (iris.x - left.x) / (right.x - left.x), 0.5 for *)
(* an eye of width 0, as a fraction with a positive denominator            *)
ClaimedRatio(eye) ==
  IF eye.r_c = eye.l_c THEN [num |-> 1, den |-> 2]
  ELSE IF eye.r_c > eye.l_c
    THEN [num |-> eye.iris - eye.l_c, den |-> eye.r_c - eye.l_c]
    ELSE [num |-> eye.l_c - eye.iris, den |-> eye.l_c - eye.r_c]

(* clamp(1 - |avg - 0.5| / 0.15, 0, 1) over the claimed ratios, times 60*d *)
(* where d is the product of the two denominators                          *)
ClaimedGaze(eyes) ==
  LET l == ClaimedRatio(eyes[1])
      r == ClaimedRatio(eyes[2])
      d == l.den * r.den
      dist == Abs(2 * (l.num * r.den + r.num * l.den) - 2 * d)   \* |avg - 0.5| * 4d
      raw == 12 * d - 20 * dist                                   \* (1 - dist/0.15) * 12d
  IN  [num |-> IF raw < 0 THEN 0 ELSE IF raw > 12 * d THEN 12 * d ELSE raw,
       den |-> 12 * d]

(* C23: for all landmark inputs the gaze score is                          *)
(* clamp(1 - |avg_ratio - 0.5| / 0.15, 0, 1) with each eye's ratio         *)
(* (iris.x - left.x) / (right.x - left.x), or 0.5 for an eye of width 0    *)
C23_GazeScoreFormula ==
  \A r \in Reqs :
    loc[r].results_data.detected =>
      LET got == loc[r].results_data.gaze_score
          claimed == ClaimedGaze(loc[r].eyes)
      IN  got.num * claimed.den = claimed.num * got.den

(* C25: once stop() has been called after start(), the worker thread       *)
(* eventually exits and stop() returns, whatever frame_queue and           *)
(* result_queue hold                                                       *)
C25_StopReturns == stopped ~> (workerPc = "exited" /\ stopPc = "returned")

====
